---- MODULE Spec2Model ----
(***************************************************************************)
(* Model of the go-web product catalogue: the in-memory repository, the    *)
(* service, the gin handlers with their token check and date validation,   *)
(* the TokenValidator middleware, and two goroutines racing in             *)
(* RepositoryImpl.Create.                                                  *)
(*                                                                         *)
(* Strings that the code parses (dates, the :id path parameter) are        *)
(* sequences of one-character strings, so that parsing is computed.        *)
(* Go's nil error is the string NoErr; every other error is its message.   *)
(***************************************************************************)
EXTENDS Integers, Sequences, FiniteSets, TLC

VARIABLES
    productList,   \* RepositoryImpl.productList
    secret,        \* os.Getenv("TOKEN"); "" when the variable is unset
    middleware,    \* TRUE: routes wired behind TokenValidator (cmd/main.go)
    last,          \* the request being answered (operation, token) and its response
    deleted,       \* ids for which a DELETE was answered 204 (history)
    sharedCap,     \* the slice's backing array has room for the racing appends
    proc,          \* the two goroutines inside RepositoryImpl.Create
    checked        \* the last expiration date checked, and what each check said

vars == <<productList, secret, middleware, last, deleted, sharedCap, proc, checked>>

(***************************************************************************)
(* Bounds                                                                  *)
(***************************************************************************)
MaxLen == 2        \* Create is not issued once the list holds MaxLen products

(***************************************************************************)
(* domain.Product and Go zero values                                       *)
(***************************************************************************)
NoErr == "<nil>"

EmptyString == <<>>

NoProduct ==
    [id |-> 0, name |-> "", quantity |-> 0, code_value |-> "",
     is_published |-> FALSE, expiration |-> EmptyString, price |-> 0]

(***************************************************************************)
(* time.Parse("02/01/2006", date): two digits, "/", two digits, "/", four  *)
(* digits, nothing else; the day must exist in that month of that year.    *)
(* The result is midnight UTC of the date, as a count of ticks.            *)
(***************************************************************************)
TicksPerDay == 2

DigitChars == {"0", "1", "2", "3", "4", "5", "6", "7", "8", "9"}

DigitVal(c) ==
    CASE c = "0" -> 0 [] c = "1" -> 1 [] c = "2" -> 2 [] c = "3" -> 3
      [] c = "4" -> 4 [] c = "5" -> 5 [] c = "6" -> 6 [] c = "7" -> 7
      [] c = "8" -> 8 [] c = "9" -> 9

RECURSIVE DecimalValue(_)
DecimalValue(s) ==
    IF Len(s) = 0 THEN 0
    ELSE 10 * DecimalValue(SubSeq(s, 1, Len(s) - 1)) + DigitVal(s[Len(s)])

AllDigits(s) == \A i \in 1..Len(s) : s[i] \in DigitChars

IsLeap(y) == (y % 4 = 0 /\ y % 100 # 0) \/ y % 400 = 0

DaysIn(m, y) ==
    IF m = 2 THEN (IF IsLeap(y) THEN 29 ELSE 28)
    ELSE IF m \in {4, 6, 9, 11} THEN 30 ELSE 31

DaysBeforeMonth(m, y) ==
    LET cum == <<0, 31, 59, 90, 120, 151, 181, 212, 243, 273, 304, 334>>
    IN  cum[m] + (IF m > 2 /\ IsLeap(y) THEN 1 ELSE 0)

DaysBeforeYear(y) ==
    IF y = 0 THEN 0
    ELSE 365 * y + ((y - 1) \div 4) - ((y - 1) \div 100) + ((y - 1) \div 400) + 1

Midnight(y, m, d) ==
    (DaysBeforeYear(y) + DaysBeforeMonth(m, y) + (d - 1)) * TicksPerDay

timeParse(date) ==
    IF \/ Len(date) # 10
       \/ date[3] # "/" \/ date[6] # "/"
       \/ ~AllDigits(SubSeq(date, 1, 2))
       \/ ~AllDigits(SubSeq(date, 4, 5))
       \/ ~AllDigits(SubSeq(date, 7, 10))
    THEN [ok |-> FALSE, t |-> 0]
    ELSE LET d == DecimalValue(SubSeq(date, 1, 2))
             m == DecimalValue(SubSeq(date, 4, 5))
             y == DecimalValue(SubSeq(date, 7, 10))
         IN  IF m \notin 1..12 \/ d < 1 \/ d > DaysIn(m, y)
             THEN [ok |-> FALSE, t |-> 0]
             ELSE [ok |-> TRUE, t |-> Midnight(y, m, d)]

\* handler.validateDate: rejects a date that is Before(now)
validateDate(date, now) ==
    LET parsed == timeParse(date)
    IN  IF ~parsed.ok
        THEN [valid |-> FALSE, err |-> "invalid expiration date format"]
        ELSE IF parsed.t < now
        THEN [valid |-> FALSE, err |-> "expiration date must be after current date"]
        ELSE [valid |-> TRUE, err |-> NoErr]

\* the standalone server's isValidDate: accepts a date that is After(now)
isValidDate(date, now) ==
    LET parsed == timeParse(date)
    IN  IF ~parsed.ok THEN FALSE
        ELSE IF parsed.t > now THEN TRUE
        ELSE FALSE

(***************************************************************************)
(* strconv.Atoi on the :id path parameter: an optional sign followed by    *)
(* one or more decimal digits.                                             *)
(***************************************************************************)
Atoi(s) ==
    LET signed == Len(s) > 0 /\ s[1] \in {"+", "-"}
        digits == IF signed THEN SubSeq(s, 2, Len(s)) ELSE s
    IN  IF Len(digits) = 0 \/ ~AllDigits(digits)
        THEN [ok |-> FALSE, n |-> 0]
        ELSE [ok |-> TRUE,
              n  |-> IF signed /\ s[1] = "-" THEN 0 - DecimalValue(digits)
                     ELSE DecimalValue(digits)]

(***************************************************************************)
(* strconv.ParseFloat on the priceGt query parameter, for the plain        *)
(* decimal form: an optional sign, digits, and at most one point.  Stored  *)
(* prices are whole numbers, and a whole price is greater than x exactly   *)
(* when it is greater than the floor of x, so f is the floor of the value. *)
(***************************************************************************)
PointAt(s) ==
    IF \E i \in 1..Len(s) : s[i] = "."
    THEN CHOOSE i \in 1..Len(s) : s[i] = "." /\ \A j \in 1..(i - 1) : s[j] # "."
    ELSE Len(s) + 1

ParseFloat(s) ==
    LET signed   == Len(s) > 0 /\ s[1] \in {"+", "-"}
        unsigned == IF signed THEN SubSeq(s, 2, Len(s)) ELSE s
        point    == PointAt(unsigned)
        whole    == SubSeq(unsigned, 1, point - 1)
        fraction == SubSeq(unsigned, point + 1, Len(unsigned))
        value    == DecimalValue(whole)
        exact    == DecimalValue(fraction) = 0
    IN  IF \/ ~AllDigits(whole) \/ ~AllDigits(fraction)
           \/ Len(whole) + Len(fraction) = 0
        THEN [ok |-> FALSE, f |-> 0]
        ELSE [ok |-> TRUE,
              f  |-> IF signed /\ s[1] = "-"
                     THEN (IF exact THEN 0 - value ELSE 0 - value - 1)
                     ELSE value]

(***************************************************************************)
(* Repository (RepositoryImpl)                                             *)
(***************************************************************************)
Indices(list) == 1..Len(list)

\* first index whose product has the id, 0 when there is none
IndexOfId(list, id) ==
    IF \E i \in Indices(list) : list[i].id = id
    THEN CHOOSE i \in Indices(list) :
            /\ list[i].id = id
            /\ \A j \in 1..(i - 1) : list[j].id # id
    ELSE 0

GetAll(list) == list

GetById_FirstProduct(list, id) ==
    IF Len(list) > 0 THEN [product |-> list[1], err |-> NoErr]
    ELSE [product |-> NoProduct, err |-> "product not found"]

GetById(list, id) ==
    LET i == IndexOfId(list, id)
    IN  IF i # 0 THEN [product |-> list[i], err |-> NoErr]
        ELSE [product |-> NoProduct, err |-> "product not found"]

GetByPriceGt_AtLeast(list, price) ==
    SelectSeq(list, LAMBDA product : product.price >= price)

GetByPriceGt(list, price) ==
    SelectSeq(list, LAMBDA product : product.price > price)

validateCodeValue_AcceptsAll(list, codeValue) == TRUE

validateCodeValue(list, codeValue) ==
    \A i \in Indices(list) : list[i].code_value # codeValue

NewId_KeepsRequestId(list, product) == product.id

\* product.Id = len(r.productList) + 1
NewId(list, product) == Len(list) + 1

RepositoryCreate_AppendsBeforeCheck(list, product) ==
    LET created == [product EXCEPT !.id = NewId(list, product)]
    IN  IF ~validateCodeValue(list, product.code_value)
        THEN [list |-> Append(list, created), product |-> NoProduct,
              err |-> "invalid code value"]
        ELSE [list |-> Append(list, created), product |-> created, err |-> NoErr]

RepositoryCreate(list, product) ==
    IF ~validateCodeValue(list, product.code_value)
    THEN [list |-> list, product |-> NoProduct, err |-> "invalid code value"]
    ELSE LET created == [product EXCEPT !.id = NewId(list, product)]
         IN  [list |-> Append(list, created), product |-> created, err |-> NoErr]

\* Update overwrites, in the product located by id, every field the update
\* carries a non-zero value for; the id is kept.  A code_value held by
\* another product is refused.
MergeProduct(old, upd) ==
    [id           |-> old.id,
     name         |-> IF upd.name # "" THEN upd.name ELSE old.name,
     quantity     |-> IF upd.quantity # 0 THEN upd.quantity ELSE old.quantity,
     code_value   |-> IF upd.code_value # "" THEN upd.code_value ELSE old.code_value,
     is_published |-> IF upd.is_published THEN TRUE ELSE old.is_published,
     expiration   |-> IF upd.expiration # EmptyString THEN upd.expiration
                      ELSE old.expiration,
     price        |-> IF upd.price # 0 THEN upd.price ELSE old.price]

RepositoryUpdate(list, id, upd) ==
    LET i == IndexOfId(list, id)
    IN  IF i = 0
        THEN [list |-> list, product |-> NoProduct, err |-> "product not found"]
        ELSE IF /\ upd.code_value # ""
                /\ \E j \in Indices(list) : j # i /\ list[j].code_value = upd.code_value
        THEN [list |-> list, product |-> NoProduct,
              err |-> "invalid product code value"]
        ELSE LET updated == MergeProduct(list[i], upd)
             IN  [list |-> [list EXCEPT ![i] = updated], product |-> updated,
                  err |-> NoErr]

RepositoryDelete(list, id) ==
    LET i == IndexOfId(list, id)
    IN  IF i = 0 THEN [list |-> list, err |-> "product not found"]
        ELSE [list |-> SubSeq(list, 1, i - 1) \o SubSeq(list, i + 1, Len(list)),
              err |-> NoErr]

(***************************************************************************)
(* Service (ServiceImpl): delegation to the repository                     *)
(***************************************************************************)
ServiceGetAll(list) == GetAll(list)

ServiceGetById(list, id) ==
    LET r == GetById(list, id)
    IN  IF r.err # NoErr THEN [product |-> NoProduct, err |-> r.err]
        ELSE [product |-> r.product, err |-> NoErr]

ServiceGetByPriceGt_NoPolicy(list, price) ==
    [products |-> GetByPriceGt(list, price), err |-> NoErr]

ServiceGetByPriceGt(list, price) ==
    LET products == GetByPriceGt(list, price)
    IN  IF Len(products) = 0 THEN [products |-> <<>>, err |-> "no products found"]
        ELSE [products |-> products, err |-> NoErr]

ServiceCreate(list, product) ==
    LET r == RepositoryCreate(list, product)
    IN  IF r.err # NoErr THEN [list |-> r.list, product |-> NoProduct, err |-> r.err]
        ELSE [list |-> r.list, product |-> r.product, err |-> NoErr]

ServiceUpdate(list, id, upd) == RepositoryUpdate(list, id, upd)

ServiceDelete(list, id) == RepositoryDelete(list, id)

(***************************************************************************)
(* Authorization                                                           *)
(***************************************************************************)
\* c.GetHeader("token") is "" when the header is absent
isAuthorized(token, env) ==
    IF token # env THEN "invalid token" ELSE NoErr

\* middleware.TokenValidator: TRUE when the chain proceeds (c.Next())
TokenValidator(token, env) ==
    IF token = "" THEN FALSE
    ELSE IF token # env THEN FALSE
    ELSE TRUE

(***************************************************************************)
(* Handlers (ProductHandler).  A request carries the token header, the :id *)
(* path parameter, the body as ShouldBindJSON sees it (bound: whether it   *)
(* binds, p: the bound fields) and the value of time.Now().  A handler     *)
(* yields the new list and the response; svc tells whether the service     *)
(* was called.                                                             *)
(***************************************************************************)
ErrInvalidId    == "invalid product id"
ErrInvalidPrice == "invalid product price"
ErrInvalidData  == "invalid product data"
ErrNotFound     == "product not found"
ErrInvalidCode  == "invalid product code value"

Failure(list, status, err, svc) ==
    [list |-> list, status |-> status, data |-> NoProduct, products |-> <<>>,
     err |-> err, svc |-> svc]

Success(list, status, data) ==
    [list |-> list, status |-> status, data |-> data, products |-> <<>>,
     err |-> NoErr, svc |-> TRUE]

\* web.Success with a list of products as the payload
SuccessList(list, status, products) ==
    [list |-> list, status |-> status, data |-> NoProduct, products |-> products,
     err |-> NoErr, svc |-> TRUE]

HandlerGetById(list, req) ==
    LET id == Atoi(req.idParam)
    IN  IF ~id.ok THEN Failure(list, 400, ErrInvalidId, FALSE)
        ELSE LET r == ServiceGetById(list, id.n)
             IN  IF r.err # NoErr THEN Failure(list, 404, r.err, TRUE)
                 ELSE Success(list, 200, r.product)

HandlerGetByPriceGt(list, req) ==
    LET priceGt == ParseFloat(req.idParam)
    IN  IF ~priceGt.ok THEN Failure(list, 400, ErrInvalidPrice, FALSE)
        ELSE LET r == ServiceGetByPriceGt(list, priceGt.f)
             IN  IF r.err # NoErr THEN Failure(list, 404, r.err, TRUE)
                 ELSE SuccessList(list, 200, r.products)

HandlerCreate(list, env, req) ==
    IF isAuthorized(req.token, env) # NoErr
    THEN Failure(list, 401, isAuthorized(req.token, env), FALSE)
    ELSE IF ~req.body.bound THEN Failure(list, 400, ErrInvalidData, FALSE)
    ELSE LET date == validateDate(req.body.p.expiration, req.now)
         IN  IF ~date.valid THEN Failure(list, 400, date.err, FALSE)
             ELSE LET r == ServiceCreate(list, req.body.p)
                  IN  IF r.err # NoErr THEN Failure(r.list, 400, r.err, TRUE)
                      ELSE Success(r.list, 201, r.product)

UpdateStatus_IgnoresInvalidCode(list, r) ==
    IF r.err # NoErr /\ r.err = ErrNotFound THEN Failure(r.list, 404, r.err, TRUE)
    ELSE Success(r.list, 200, r.product)

\* the error checks that follow h.service.Update in FullUpdate and PartialUpdate
UpdateStatus(list, r) ==
    IF r.err # NoErr /\ r.err = ErrNotFound THEN Failure(r.list, 404, r.err, TRUE)
    ELSE IF r.err # NoErr /\ r.err = ErrInvalidCode
    THEN Failure(r.list, 400, r.err, TRUE)
    ELSE Success(r.list, 200, r.product)

HandlerFullUpdate_UpdatesBeforeDateCheck(list, env, req) ==
    IF isAuthorized(req.token, env) # NoErr
    THEN Failure(list, 401, isAuthorized(req.token, env), FALSE)
    ELSE LET id == Atoi(req.idParam)
         IN  IF ~id.ok THEN Failure(list, 400, ErrInvalidId, FALSE)
             ELSE IF ~req.body.bound THEN Failure(list, 400, ErrInvalidData, FALSE)
             ELSE LET r    == ServiceUpdate(list, id.n, req.body.p)
                      date == validateDate(req.body.p.expiration, req.now)
                  IN  IF ~date.valid THEN Failure(r.list, 400, date.err, TRUE)
                      ELSE UpdateStatus(list, r)

HandlerFullUpdate(list, env, req) ==
    IF isAuthorized(req.token, env) # NoErr
    THEN Failure(list, 401, isAuthorized(req.token, env), FALSE)
    ELSE LET id == Atoi(req.idParam)
         IN  IF ~id.ok THEN Failure(list, 400, ErrInvalidId, FALSE)
             ELSE IF ~req.body.bound THEN Failure(list, 400, ErrInvalidData, FALSE)
             ELSE LET date == validateDate(req.body.p.expiration, req.now)
                  IN  IF ~date.valid THEN Failure(list, 400, date.err, FALSE)
                      ELSE UpdateStatus(list, ServiceUpdate(list, id.n, req.body.p))

\* c.ShouldBindJSON(&partialUpdateData) on a well-formed JSON object: present
\* is the set of keys the object has, v their values.  The Request struct
\* has plain (non-pointer) fields and no id: a key the object lacks leaves
\* the field at its zero value, and an "id" key is ignored.
Field(json, key) == IF key \in json.present THEN json.v[key] ELSE NoProduct[key]

ShouldBindPatch(json) ==
    [bound |-> TRUE,
     p |-> [id           |-> 0,
            name         |-> Field(json, "name"),
            quantity     |-> Field(json, "quantity"),
            code_value   |-> Field(json, "code_value"),
            is_published |-> Field(json, "is_published"),
            expiration   |-> Field(json, "expiration"),
            price        |-> Field(json, "price")]]

HandlerPartialUpdate_AlwaysValidatesDate(list, env, req) ==
    IF isAuthorized(req.token, env) # NoErr
    THEN Failure(list, 401, isAuthorized(req.token, env), FALSE)
    ELSE LET id == Atoi(req.idParam)
         IN  IF ~id.ok THEN Failure(list, 400, ErrInvalidId, FALSE)
             ELSE IF ~req.body.bound THEN Failure(list, 400, ErrInvalidData, FALSE)
             ELSE LET update == [req.body.p EXCEPT !.id = 0]
                      date   == validateDate(update.expiration, req.now)
                  IN  IF ~date.valid
                      THEN Failure(list, 400, date.err, FALSE)
                      ELSE UpdateStatus(list, ServiceUpdate(list, id.n, update))

HandlerPartialUpdate(list, env, req) ==
    IF isAuthorized(req.token, env) # NoErr
    THEN Failure(list, 401, isAuthorized(req.token, env), FALSE)
    ELSE LET id == Atoi(req.idParam)
         IN  IF ~id.ok THEN Failure(list, 400, ErrInvalidId, FALSE)
             ELSE IF ~req.body.bound THEN Failure(list, 400, ErrInvalidData, FALSE)
             ELSE LET update == [req.body.p EXCEPT !.id = 0]
                      date   == validateDate(update.expiration, req.now)
                  IN  IF update.expiration # EmptyString /\ ~date.valid
                      THEN Failure(list, 400, date.err, FALSE)
                      ELSE UpdateStatus(list, ServiceUpdate(list, id.n, update))

HandlerDelete_ParsesIdFirst(list, env, req) ==
    LET id == Atoi(req.idParam)
    IN  IF ~id.ok THEN Failure(list, 400, ErrInvalidId, FALSE)
        ELSE IF isAuthorized(req.token, env) # NoErr
        THEN Failure(list, 401, isAuthorized(req.token, env), FALSE)
        ELSE LET r == ServiceDelete(list, id.n)
             IN  IF r.err # NoErr THEN Failure(r.list, 404, r.err, TRUE)
                 ELSE Success(r.list, 204, NoProduct)

HandlerDelete(list, env, req) ==
    IF isAuthorized(req.token, env) # NoErr
    THEN Failure(list, 401, isAuthorized(req.token, env), FALSE)
    ELSE LET id == Atoi(req.idParam)
         IN  IF ~id.ok THEN Failure(list, 400, ErrInvalidId, FALSE)
             ELSE LET r == ServiceDelete(list, id.n)
                  IN  IF r.err # NoErr THEN Failure(r.list, 404, r.err, TRUE)
                      ELSE Success(r.list, 204, NoProduct)

\* a protected route: TokenValidator aborts with 401 before the handler runs
Protected(list, env, mw, req, response) ==
    IF mw /\ ~TokenValidator(req.token, env)
    THEN Failure(list, 401, "invalid token", FALSE)
    ELSE response

\* the router: GET /products/:id is open, the mutating routes are protected
Respond(list, env, mw, req) ==
    CASE req.op = "GetById" -> HandlerGetById(list, req)
      [] req.op = "GetByPriceGt" -> HandlerGetByPriceGt(list, req)
      [] req.op = "Create" ->
            Protected(list, env, mw, req, HandlerCreate(list, env, req))
      [] req.op = "FullUpdate" ->
            Protected(list, env, mw, req, HandlerFullUpdate(list, env, req))
      [] req.op = "PartialUpdate" ->
            Protected(list, env, mw, req, HandlerPartialUpdate(list, env, req))
      [] req.op = "Delete" ->
            Protected(list, env, mw, req, HandlerDelete(list, env, req))

(***************************************************************************)
(* Inputs                                                                  *)
(***************************************************************************)
D2000      == <<"0", "1", "/", "0", "1", "/", "2", "0", "0", "0">>
D2099      == <<"0", "1", "/", "0", "1", "/", "2", "0", "9", "9">>
DIsoFormat == <<"2", "0", "9", "9", "-", "0", "1", "-", "0", "1">>
DNoSuchDay == <<"3", "1", "/", "0", "2", "/", "2", "0", "9", "9">>

\* time.Now() while the server runs: some midday of 2024 (the clock of the
\* date checks on their own is DateClock)
Clock == {Midnight(2024, 6, 15) + 1}

Tokens  == {"", "12345", "wrong"}
Secrets == {"", "12345"}

Product(id, name, quantity, code, published, expiration, price) ==
    [id |-> id, name |-> name, quantity |-> quantity, code_value |-> code,
     is_published |-> published, expiration |-> expiration, price |-> price]

\* the products loaded from the JSON store: ids 1..n in order, distinct codes
SeedProducts ==
    << Product(1, "n1", 1, "c1", TRUE, D2099, 10),
       Product(2, "n2", 2, "c2", FALSE, D2099, 20) >>

Bodies ==
    { [bound |-> TRUE,  p |-> Product(9, "n3", 3, "c3", TRUE, D2099, 30)],
      [bound |-> TRUE,  p |-> Product(0, "n1", 1, "c1", FALSE, D2099, 10)],
      [bound |-> TRUE,  p |-> Product(0, "n4", 4, "c4", FALSE, D2099, 40)],
      [bound |-> TRUE,  p |-> Product(0, "n3", 3, "c3", TRUE, D2000, 30)],
      [bound |-> TRUE,  p |-> Product(0, "n3", 3, "c3", TRUE, DIsoFormat, 30)],
      [bound |-> TRUE,  p |-> Product(0, "n3", 3, "c3", TRUE, DNoSuchDay, 30)],
      [bound |-> FALSE, p |-> NoProduct],
      [bound |-> TRUE,  p |-> NoProduct] }

\* JSON objects sent to PATCH: keys left out, keys sent with their zero
\* value, and keys sent with a value
JsonPatches ==
    { [present |-> {}, v |-> NoProduct],
      [present |-> {"is_published"}, v |-> NoProduct],
      [present |-> {"quantity"}, v |-> NoProduct],
      [present |-> {"price"}, v |-> NoProduct],
      [present |-> {"expiration"}, v |-> NoProduct],
      [present |-> {"name", "code_value"}, v |-> NoProduct],
      [present |-> {"id"}, v |-> [NoProduct EXCEPT !.id = 7]],
      [present |-> {"code_value", "quantity", "price", "is_published"},
       v |-> [NoProduct EXCEPT !.code_value = "c2"]],
      [present |-> {"expiration"}, v |-> [NoProduct EXCEPT !.expiration = D2000]],
      [present |-> {"expiration", "price"},
       v |-> [NoProduct EXCEPT !.expiration = D2099]] }

\* the bodies PATCH is sent: those of PUT, and the JSON objects above
PatchBodies == Bodies \cup { ShouldBindPatch(json) : json \in JsonPatches }

DigitChar(n) ==
    CASE n = 0 -> "0" [] n = 1 -> "1" [] n = 2 -> "2" [] n = 3 -> "3"
      [] n = 4 -> "4" [] n = 5 -> "5" [] n = 6 -> "6" [] n = 7 -> "7"
      [] n = 8 -> "8" [] n = 9 -> "9"

\* the :id path parameters tried: every id a product can have, and a word
IdParams == { <<DigitChar(n)>> : n \in 1..MaxLen } \cup { <<"a", "b", "c">> }

\* the :id path parameters GET /products/:id is sent: signed and unsigned
\* numbers, ids no product has, a number followed by a letter, a word
GetIdParams ==
    IdParams \cup { <<"9">>, <<"0">>, <<"-", "1">>, <<"+", "2">>, <<"0", "1">>,
                    <<"1", "a">> }

\* the priceGt query parameters tried; EmptyString is the missing parameter
PriceParams ==
    { <<"0">>, <<"1", "0">>, <<"1", "5">>, <<"2", "0">>, <<"3", "0">>,
      <<"1", "9", ".", "5">>, <<"-", "0", ".", "5">>, <<"4", "0">>,
      <<"c", "h", "e", "a", "p">>, <<"1", ".", "2", ".", "3">>, EmptyString }

NoBody == [bound |-> FALSE, p |-> NoProduct]

Request(op, token, idParam, body, now) ==
    [op |-> op, token |-> token, idParam |-> idParam, body |-> body, now |-> now]

NoRequest == Request("none", "", EmptyString, NoBody, 0)

\* what is wrong with a mutating request before any service is called: an
\* :id that is no integer (POST has none), a body that does not bind (DELETE
\* has none), an expiration that validateDate refuses (PATCH: only when one
\* was sent)
IdFails(req) == req.op # "Create" /\ ~Atoi(req.idParam).ok

BodyFails(req) == req.op # "Delete" /\ ~req.body.bound

DateFails(req) ==
    /\ req.op # "Delete"
    /\ req.body.bound
    /\ req.op = "PartialUpdate" => req.body.p.expiration # EmptyString
    /\ ~validateDate(req.body.p.expiration, req.now).valid

Mutating == {"Create", "FullUpdate", "PartialUpdate", "Delete"}

\* what the server holds of a request between handling it and delivering
\* the response: the operation, the token it carried, whether its id, body
\* or date was invalid, the response, and
\* for a PATCH that reached the service the update record it handed over
Served(req, response) ==
    [op |-> req.op, token |-> req.token, status |-> response.status,
     invalid |-> /\ req.op \in Mutating
                 /\ (IdFails(req) \/ BodyFails(req) \/ DateFails(req)),
     data |-> response.data, products |-> response.products, err |-> response.err,
     update |-> IF req.op = "PartialUpdate" /\ response.svc
                THEN [req.body.p EXCEPT !.id = 0] ELSE NoProduct]

\* no request is being answered
Waiting ==
    Served(NoRequest, [status |-> 0, data |-> NoProduct, products |-> <<>>,
                       err |-> NoErr, svc |-> FALSE])

(***************************************************************************)
(* The server, one request at a time                                       *)
(***************************************************************************)
NoCheck == [done |-> FALSE, date |-> EmptyString, now |-> 0, layered |-> FALSE,
            standalone |-> FALSE, status |-> 0]

Idle == [pc |-> "idle", product |-> NoProduct, snap |-> <<>>, tmp |-> <<>>,
         ret |-> NoProduct, err |-> NoErr, overlapped |-> FALSE]

Init ==
    /\ productList = SeedProducts
    /\ secret \in Secrets
    /\ middleware \in BOOLEAN
    /\ last = Waiting
    /\ deleted = {}
    /\ sharedCap = FALSE
    /\ proc = [g \in {1, 2} |-> Idle]
    /\ checked = NoCheck

\* the handler runs to its end on the request, one request at a time
Serve(req) ==
    LET response == Respond(productList, secret, middleware, req)
    IN  /\ last = Waiting
        /\ productList' = response.list
        /\ last' = Served(req, response)
        /\ deleted' = IF req.op = "Delete" /\ response.status = 204
                      THEN deleted \cup {Atoi(req.idParam).n} ELSE deleted
        /\ UNCHANGED <<secret, middleware, sharedCap, proc, checked>>

\* the response is written out and the server waits for the next request
Deliver ==
    /\ last # Waiting
    /\ last' = Waiting
    /\ UNCHANGED <<productList, secret, middleware, deleted, sharedCap, proc, checked>>

GetByIdRequest ==
    \E idParam \in GetIdParams :
        Serve(Request("GetById", "", idParam, NoBody, 0))

\* GET /products/search?priceGt=N; the query parameter travels in idParam
GetByPriceGtRequest ==
    \E priceParam \in PriceParams :
        Serve(Request("GetByPriceGt", "", priceParam, NoBody, 0))

CreateRequest ==
    /\ Len(productList) < MaxLen
    /\ \E token \in Tokens, body \in Bodies, now \in Clock :
        Serve(Request("Create", token, EmptyString, body, now))

FullUpdateRequest ==
    \E token \in Tokens, idParam \in IdParams, body \in Bodies, now \in Clock :
        Serve(Request("FullUpdate", token, idParam, body, now))

PartialUpdateRequest ==
    \E token \in Tokens, idParam \in IdParams, body \in PatchBodies, now \in Clock :
        Serve(Request("PartialUpdate", token, idParam, body, now))

DeleteRequest ==
    \E token \in Tokens, idParam \in IdParams :
        Serve(Request("Delete", token, idParam, NoBody, 0))

Next ==
    \/ GetByIdRequest
    \/ GetByPriceGtRequest
    \/ CreateRequest
    \/ FullUpdateRequest
    \/ PartialUpdateRequest
    \/ DeleteRequest
    \/ Deliver

Spec == Init /\ [][Next]_vars

(***************************************************************************)
(* Two goroutines inside RepositoryImpl.Create with no lock.  Each read    *)
(* and each write of r.productList is a step of its own: the range loop of *)
(* validateCodeValue, len(r.productList), the slice read by append, the    *)
(* element append writes, and the assignment of append's result.           *)
(* sharedCap tells whether the backing array has room left: if it has,     *)
(* append writes in place and every slice over that array sees the         *)
(* element; if not, append copies into a fresh array.                      *)
(***************************************************************************)
Goroutines == {1, 2}

Other(g) == 3 - g

RaceProducts ==
    { Product(0, "r3", 3, "c3", TRUE, D2099, 30),
      Product(0, "r4", 4, "c4", TRUE, D2099, 40),
      Product(0, "r1", 1, "c1", TRUE, D2099, 10) }

InFlight(p) == p.pc \notin {"idle", "done"}

InitRace ==
    /\ productList \in {SubSeq(SeedProducts, 1, n) : n \in 0..Len(SeedProducts)}
    /\ secret = ""
    /\ middleware = FALSE
    /\ last = Waiting
    /\ deleted = {}
    /\ sharedCap \in BOOLEAN
    /\ proc = [g \in Goroutines |-> Idle]
    /\ checked = NoCheck

RaceFrame == UNCHANGED <<secret, middleware, last, deleted, sharedCap, checked>>

\* the call: the caller's product is the argument; the goroutine's name
\* tells the two requests apart
Call(g) ==
    /\ proc[g].pc = "idle"
    /\ \E p \in RaceProducts :
        LET product == [p EXCEPT !.quantity = g]
            overlap == InFlight(proc[Other(g)])
        IN  proc' = [proc EXCEPT
                        ![g] = [@ EXCEPT !.pc = "validate", !.product = product,
                                         !.overlapped = overlap],
                        ![Other(g)] = [@ EXCEPT !.overlapped = @ \/ overlap]]
    /\ UNCHANGED productList
    /\ RaceFrame

\* if !r.validateCodeValue(product.CodeValue) { return Product{}, error }
Validate(g) ==
    /\ proc[g].pc = "validate"
    /\ proc' = [proc EXCEPT ![g] =
                 IF validateCodeValue(productList, proc[g].product.code_value)
                 THEN [@ EXCEPT !.pc = "setId"]
                 ELSE [@ EXCEPT !.pc = "done", !.ret = NoProduct,
                                !.err = "invalid code value"]]
    /\ UNCHANGED productList
    /\ RaceFrame

\* product.Id = len(r.productList) + 1
SetId(g) ==
    /\ proc[g].pc = "setId"
    /\ proc' = [proc EXCEPT ![g] =
                 [@ EXCEPT !.pc = "read",
                           !.product = [@ EXCEPT !.id =
                                           NewId(productList, proc[g].product)]]]
    /\ UNCHANGED productList
    /\ RaceFrame

\* append(r.productList, product): the slice is read
ReadSlice(g) ==
    /\ proc[g].pc = "read"
    /\ proc' = [proc EXCEPT ![g] = [@ EXCEPT !.pc = "write", !.snap = productList]]
    /\ UNCHANGED productList
    /\ RaceFrame

\* a slice over the shared array that reaches index k sees the element
Aliased(view, k, product) ==
    IF sharedCap /\ Len(view) >= k THEN [view EXCEPT ![k] = product] ELSE view

\* append writes the element after the slice it read
WriteElement(g) ==
    /\ proc[g].pc = "write"
    /\ LET k == Len(proc[g].snap) + 1
           product == proc[g].product
       IN  /\ proc' = [proc EXCEPT
                         ![g] = [@ EXCEPT !.pc = "store",
                                          !.tmp = Append(proc[g].snap, product)],
                         ![Other(g)] =
                             [@ EXCEPT !.snap = Aliased(@, k, product),
                                       !.tmp = Aliased(@, k, product)]]
           /\ productList' = Aliased(productList, k, product)
    /\ RaceFrame

\* r.productList = <append's result>; return product, nil
Store(g) ==
    /\ proc[g].pc = "store"
    /\ productList' = proc[g].tmp
    /\ proc' = [proc EXCEPT ![g] =
                 [@ EXCEPT !.pc = "done", !.ret = proc[g].product, !.err = NoErr]]
    /\ RaceFrame

NextRace ==
    \E g \in Goroutines :
        \/ Call(g)
        \/ Validate(g)
        \/ SetId(g)
        \/ ReadSlice(g)
        \/ WriteElement(g)
        \/ Store(g)

SpecRace == InitRace /\ [][NextRace]_vars

(***************************************************************************)
(* Properties of the server (specification Spec)                           *)
(***************************************************************************)
\* every request of an operation the handlers can be sent (POST /new has
\* no :id parameter, DELETE no body and no use for the clock)
RequestIds(op) == IF op = "Create" THEN {EmptyString} ELSE IdParams

RequestBodies(op) ==
    CASE op = "PartialUpdate" -> PatchBodies
      [] op = "Delete" -> {NoBody}
      [] OTHER -> Bodies

RequestClock(op) == IF op = "Delete" THEN {0} ELSE Clock

\* P holds of every such request
EveryRequest(op, P(_)) ==
    \A token \in Tokens, idParam \in RequestIds(op),
       body \in RequestBodies(op), now \in RequestClock(op) :
        P(Request(op, token, idParam, body, now))

Answer(req) == Respond(productList, secret, middleware, req)

\* the server is between two requests
IdleServer == last = Waiting

\* a token that both TokenValidator and isAuthorized let through
GoodToken(req) == req.token # "" /\ req.token = secret

Stored(product) == \E i \in Indices(productList) : productList[i] = product

CodeInUse(list, code) == \E i \in Indices(list) : list[i].code_value = code

DateInFuture(req) ==
    timeParse(req.body.p.expiration).ok /\ timeParse(req.body.p.expiration).t > req.now

\* C1: no two products of the collection have the same id.
C1_UniqueIds ==
    \A i, j \in Indices(productList) :
        i # j => productList[i].id # productList[j].id

\* C2: right after a Create answered 201, GetById of the id it returned
\* gives back the very record Create returned.
C2_CreateRoundTrip ==
    (last.op = "Create" /\ last.status = 201)
        => GetById(productList, last.data.id) = [product |-> last.data, err |-> NoErr]

\* C3: a Create whose code_value is already held by a stored product is
\* refused (400 once the token is accepted, never 201) and the collection
\* keeps the same products in the same order.
C3_DuplicateCodeRejected ==
    IdleServer => EveryRequest("Create", LAMBDA req :
        (req.body.bound /\ CodeInUse(productList, req.body.p.code_value))
            => LET answer == Answer(req)
               IN  /\ answer.list = productList
                   /\ answer.status \in {400, 401}
                   /\ GoodToken(req) => answer.status = 400
                   /\ answer.svc => answer.err = "invalid code value")

C3_Witness ==
    /\ last.op = "Create"
    /\ last.status = 400
    /\ last.err = "invalid code value"

\* C4: an accepted Create with a code_value not yet stored appends exactly
\* one product at the end, leaves the earlier ones alone, gives it the id
\* (length before) + 1 whatever id the body carried, answers 201 with it,
\* and GetById of that id then returns it.
C4_CreateAppends ==
    IdleServer => EveryRequest("Create", LAMBDA req :
        ( /\ GoodToken(req) /\ req.body.bound /\ DateInFuture(req)
          /\ ~CodeInUse(productList, req.body.p.code_value) )
            => LET created == [req.body.p EXCEPT !.id = Len(productList) + 1]
                   answer  == Answer(req)
               IN  /\ answer.status = 201
                   /\ answer.data = created
                   /\ answer.list = Append(productList, created)
                   /\ GetById(answer.list, created.id).product = created)

\* C5: a mutating request whose token header is absent or differs from the
\* secret is answered 401 and changes nothing, whatever the secret is.
C5_UnauthorizedRejected ==
    [][ (last'.op \in Mutating /\ (last'.token = "" \/ last'.token # secret))
            => (last'.status = 401 /\ productList' = productList) ]_vars

\* C6: a Delete of a stored id answers 204 with no body, and from then on
\* GetById of that id is NotFound, whatever is created, updated or deleted
\* afterwards.
C6_DeleteIsPermanent ==
    /\ (last.op = "Delete" /\ last.status = 204) => last.data = NoProduct
    /\ \A id \in deleted : GetById(productList, id).err = "product not found"

\* the request would give the product it addresses a code_value that
\* another stored product holds
UpdateCollides(req) ==
    LET i == IndexOfId(productList, Atoi(req.idParam).n)
    IN  /\ Atoi(req.idParam).ok
        /\ i # 0
        /\ req.body.bound
        /\ req.body.p.code_value # ""
        /\ \E j \in Indices(productList) :
              j # i /\ productList[j].code_value = req.body.p.code_value

C11_GetByIdContract ==
    IdleServer => \A idParam \in GetIdParams :
        LET id     == Atoi(idParam)
            answer == Answer(Request("GetById", "", idParam, NoBody, 0))
            found  == GetById(productList, id.n)
        IN  /\ answer.list = productList
            /\ ~id.ok => (answer.status = 400 /\ ~answer.svc)
            /\ (id.ok /\ \E i \in Indices(productList) : productList[i].id = id.n)
                  => /\ found.err = NoErr
                     /\ found.product.id = id.n
                     /\ Stored(found.product)
                     /\ answer.status = 200
                     /\ answer.data = found.product
            /\ (id.ok /\ \A i \in Indices(productList) : productList[i].id # id.n)
                  => /\ found.err = "product not found"
                     /\ found.product = NoProduct
                     /\ answer.status = 404
                     /\ answer.err = ErrNotFound

\* GET /products/:id answered 200 while two stored products have that id
C11_Witness ==
    /\ last.op = "GetById"
    /\ last.status = 200
    /\ \E i, j \in Indices(productList) :
          i # j /\ productList[i].id = last.data.id /\ productList[j].id = last.data.id

\* the prices GetByPriceGt is asked about: below, between, equal to and
\* above the prices products can have
Prices == {0 - 1, 0, 9, 10, 11, 19, 20, 21, 29, 30, 31, 40, 41}

\* the stored positions whose price is greater than p, and the k-th of them
Dearer(p) == {i \in Indices(productList) : productList[i].price > p}

KthDearer(p, k) ==
    CHOOSE i \in Dearer(p) : Cardinality({j \in Dearer(p) : j < i}) = k - 1

\* C12: the repository's GetByPriceGt(p) returns the products with price
\* strictly greater than p, all of them and no other, in the order they have
\* in the collection, and a search leaves the collection as it was.
C12_PriceFilterExact ==
    IdleServer =>
        /\ \A p \in Prices :
              LET r == GetByPriceGt(productList, p)
              IN  /\ Len(r) = Cardinality(Dearer(p))
                  /\ \A k \in 1..Len(r) : r[k] = productList[KthDearer(p, k)]
        /\ \A priceParam \in PriceParams :
              Answer(Request("GetByPriceGt", "", priceParam, NoBody, 0)).list
                  = productList

\* a search answered with the second of two stored products alone
C12_Witness ==
    /\ last.op = "GetByPriceGt"
    /\ last.status = 200
    /\ Len(productList) = 2
    /\ last.products = <<productList[2]>>

\* C13: when no stored product has a price greater than p, the repository
\* returns an empty list, the service an error and the handler 404; when
\* some has, the service returns the repository's list with no error and the
\* handler answers 200 with it.
C13_EmptySearchIsNotFound ==
    IdleServer => \A priceParam \in PriceParams :
        LET priceGt == ParseFloat(priceParam)
            found   == GetByPriceGt(productList, priceGt.f)
            service == ServiceGetByPriceGt(productList, priceGt.f)
            answer  == Answer(Request("GetByPriceGt", "", priceParam, NoBody, 0))
        IN  priceGt.ok =>
              IF \A i \in Indices(productList) : ~(productList[i].price > priceGt.f)
              THEN /\ found = <<>>
                   /\ service.err # NoErr
                   /\ answer.status = 404
                   /\ answer.err = service.err
              ELSE /\ found # <<>>
                   /\ service = [products |-> found, err |-> NoErr]
                   /\ answer.status = 200
                   /\ answer.products = found

\* a search that matched none of the stored products
C13_Witness ==
    /\ last.op = "GetByPriceGt"
    /\ last.status = 404
    /\ last.err = "no products found"
    /\ Len(productList) > 0

\* the value a PATCH leaves in a field: the update's if it is not the zero
\* value, the stored one otherwise
Patched(old, upd, key) == IF upd[key] # NoProduct[key] THEN upd[key] ELSE old[key]

\* C14: PATCH hands the service the same update record whether a key is left
\* out of the body or sent with its zero value (an "id" key never counts),
\* so a PATCH answered 200 overwrites only the fields sent non-zero:
\* is_published stays true, quantity and price keep their value when 0 is
\* sent.  Without an expiration the date is not validated; with one, the
\* request is refused exactly when Create refuses that date.
C14_PatchZeroIsUnset ==
    IdleServer =>
        /\ \A json \in JsonPatches : \A key \in json.present :
              (key = "id" \/ json.v[key] = NoProduct[key])
                  => ShouldBindPatch(json)
                        = ShouldBindPatch([json EXCEPT !.present = @ \ {key}])
        /\ EveryRequest("PartialUpdate", LAMBDA req :
              (GoodToken(req) /\ Atoi(req.idParam).ok /\ req.body.bound)
                  => LET upd    == req.body.p
                         answer == Answer(req)
                         create == HandlerCreate(productList, secret,
                                                 [req EXCEPT !.op = "Create"])
                         i      == IndexOfId(productList, Atoi(req.idParam).n)
                         old    == productList[i]
                     IN  /\ upd.expiration = EmptyString => answer.svc
                         /\ upd.expiration # EmptyString
                               => /\ answer.svc = create.svc
                                  /\ ~answer.svc => /\ answer.status = 400
                                                    /\ answer.err = create.err
                         /\ answer.status = 200
                               => /\ i # 0
                                  /\ answer.data.id = old.id
                                  /\ old.is_published => answer.data.is_published
                                  /\ \A key \in {"name", "quantity", "code_value",
                                                  "is_published", "expiration",
                                                  "price"} :
                                        answer.data[key] = Patched(old, upd, key)
                                  /\ answer.list
                                        = [productList EXCEPT ![i] = answer.data])

\* a PATCH whose body bound to all zero values (is_published false,
\* quantity 0, price 0) answered 200 with the product still published and
\* its quantity and price kept
C14_Witness ==
    /\ last.op = "PartialUpdate"
    /\ last.status = 200
    /\ last.update = NoProduct
    /\ last.data.is_published
    /\ last.data.quantity # 0
    /\ last.data.price # 0

\* C15: a POST, PUT, PATCH or DELETE answered 400, 401 or 404 leaves the
\* collection as it was before the request, and one whose id, body or date
\* fails validation is answered without the service being called.
C15_ErrorsChangeNothing ==
    IdleServer => \A op \in Mutating : EveryRequest(op, LAMBDA req :
        LET answer == Answer(req)
        IN  /\ answer.status \in {400, 401, 404} => answer.list = productList
            /\ (IdFails(req) \/ BodyFails(req) \/ DateFails(req))
                  => /\ ~answer.svc
                     /\ answer.status \in {400, 401}
                     /\ answer.list = productList)

\* a PUT refused for its expiration date
C15_Witness ==
    /\ last.op = "FullUpdate"
    /\ last.status = 400
    /\ last.err = "expiration date must be after current date"

\* C16: in every mutating handler the token is checked first: a request
\* whose token differs from the secret is answered 401 whatever its id, body
\* and date are; a request that passes is answered by the first check that
\* fails, in the order id, body, date, and reaches the service only when
\* none fails.
C16_TokenCheckFirst ==
    IdleServer => \A op \in Mutating : EveryRequest(op, LAMBDA req :
        LET answer == Answer(req)
        IN  IF req.token # secret \/ (middleware /\ req.token = "")
            THEN /\ answer.status = 401
                 /\ answer.err = "invalid token"
                 /\ ~answer.svc
            ELSE IF IdFails(req)
            THEN answer.status = 400 /\ answer.err = ErrInvalidId /\ ~answer.svc
            ELSE IF BodyFails(req)
            THEN answer.status = 400 /\ answer.err = ErrInvalidData /\ ~answer.svc
            ELSE IF DateFails(req)
            THEN /\ answer.status = 400
                 /\ answer.err = validateDate(req.body.p.expiration, req.now).err
                 /\ ~answer.svc
            ELSE answer.svc /\ answer.status # 401)

\* a DELETE with a wrong token and an :id that is no integer, answered 401
C16_Witness ==
    /\ last.op = "Delete"
    /\ last.token # ""
    /\ last.token # secret
    /\ last.invalid
    /\ last.status = 401

\* C17: for the token of every mutating request served, TokenValidator lets
\* the chain proceed exactly when the token is not empty and equals the
\* secret, a request it stops is answered 401 with the collection untouched,
\* and isAuthorized accepts exactly the tokens TokenValidator lets through.
C17_MiddlewareMatchesHandler ==
    [][ last'.op \in Mutating =>
          LET proceeds   == TokenValidator(last'.token, secret)
              authorized == isAuthorized(last'.token, secret) = NoErr
          IN  /\ proceeds = (last'.token # "" /\ last'.token = secret)
              /\ (middleware /\ ~proceeds)
                    => (last'.status = 401 /\ productList' = productList)
              /\ proceeds = authorized ]_vars

(***************************************************************************)
(* The two expiration checks on their own (specification SpecDates): the   *)
(* layered handler's validateDate, as Create uses it, and the standalone   *)
(* server's isValidDate, on the same date and clock.                       *)
(***************************************************************************)
DayTexts   == { <<"0", "1">>, <<"3", "1">>, <<"2", "9">>, <<"0", "0">>, <<"1">> }
MonthTexts == { <<"0", "1">>, <<"0", "2">>, <<"1", "3">> }
YearTexts  == { <<"2", "0", "0", "0">>, <<"2", "0", "2", "4">>, <<"2", "0", "9", "9">> }

Dates ==
    { d \o <<sep>> \o m \o <<sep>> \o y :
        d \in DayTexts, m \in MonthTexts, y \in YearTexts, sep \in {"/", "-"} }
        \cup {EmptyString}

DateClock ==
    { Midnight(2000, 1, 1) - 1, Midnight(2024, 6, 15) + 1,
      Midnight(2099, 1, 1), Midnight(2099, 1, 1) + 1, Midnight(2099, 1, 31) }

InitDates ==
    /\ productList = SeedProducts
    /\ secret = "12345"
    /\ middleware = FALSE
    /\ last = Waiting
    /\ deleted = {}
    /\ sharedCap = FALSE
    /\ proc = [g \in Goroutines |-> Idle]
    /\ checked = NoCheck

\* POST /products/new with a fresh code_value and the date, next to
\* isValidDate on the same date
CheckDate ==
    \E date \in Dates, now \in DateClock :
        LET body == [bound |-> TRUE,
                     p |-> Product(0, "n3", 3, "c3", TRUE, date, 30)]
            req  == Request("Create", secret, EmptyString, body, now)
        IN  /\ checked' = [done       |-> TRUE,
                           date       |-> date,
                           now        |-> now,
                           layered    |-> validateDate(date, now).valid,
                           standalone |-> isValidDate(date, now),
                           status     |-> HandlerCreate(productList, secret, req).status]
            /\ UNCHANGED <<productList, secret, middleware, last, deleted,
                           sharedCap, proc>>

NextDates == CheckDate

SpecDates == InitDates /\ [][NextDates]_vars

\* C9: the expiration check accepts a date exactly when it parses as
\* DD/MM/YYYY and is strictly after the current time, every other date being
\* answered 400, and isValidDate accepts the same (date, now) pairs.
C9_ExpirationCheck ==
    checked.done =>
        LET strictlyAfter == /\ timeParse(checked.date).ok
                             /\ timeParse(checked.date).t > checked.now
        IN  /\ checked.layered = strictlyAfter
            /\ (checked.status = 400) = ~strictlyAfter
            /\ checked.layered = checked.standalone

(***************************************************************************)
(* Properties of the racing goroutines (specification SpecRace)            *)
(***************************************************************************)
BothReturned == \A g \in Goroutines : proc[g].pc = "done"

BothSucceeded == BothReturned /\ \A g \in Goroutines : proc[g].err = NoErr

SameCode == proc[1].ret.code_value = proc[2].ret.code_value

SameId == proc[1].ret.id = proc[2].ret.id

OneLost == \E g \in Goroutines : ~Stored(proc[g].ret)

RaceBad == BothSucceeded /\ (SameCode \/ SameId \/ OneLost)

\* C8: two unsynchronized Creates can leave a bad state (both succeed with
\* one code_value, or with one id, or a product that was appended is gone),
\* and they do so only when their steps interleave: two calls of which one
\* returned before the other began never do.
C8_RaceNeedsOverlap ==
    RaceBad => \A g \in Goroutines : proc[g].overlapped

\* both succeeded with the same code_value and the same id, and one of the
\* two products is gone
C8_Witness ==
    BothSucceeded /\ SameCode /\ SameId /\ OneLost

====
